---- MODULE Spec2Model ----
(***************************************************************************)
(* Model of useq/_grid.py: the grid plans (GridFromEdges, GridRowsColumns, *)
(* GridWidthHeight, GridFromPolygon) and the RandomPoints plan.            *)
(*                                                                         *)
(* Numbers.  Every length (edge, FOV, width, step, offset, coordinate) is   *)
(* held in eighths of a stage unit: U(a) is a units.  The lengths given to *)
(* a constructor are whole units and overlap percentages are multiples of  *)
(* 25, so that fov/2, fov/4, fov*overlap/100 and (n-1)*step/2 are all      *)
(* exact integers: the model computes the real-number value of each Python *)
(* expression (floating-point rounding is not modelled).                   *)
(***************************************************************************)
EXTENDS Integers, Sequences, FiniteSets, TLC

VARIABLES
    plan,        \* the plan object (NoPlan before construction or after a failed one)
    ctorErr,     \* the exception construction raised ("" when none)
    call,        \* the arguments of the constructor call (NoCall before it)
    numResult,   \* outcome of num_positions(): [called, err, v]
    iterResult,  \* outcome of list(iter(plan)): [called, err, v]
    warnings,    \* warnings issued so far (a sequence of warning kinds)
    rnd,         \* the frame of the running RandomPoints.__iter__ (Idle when none)
    runs         \* outcomes of the completed iterations of the random plan, in order

vars == <<plan, call, ctorErr, numResult, iterResult, warnings, rnd, runs>>

(***************************************************************************)
(* Python values                                                           *)
(***************************************************************************)
None == <<>>
Some(v) == <<v>>
IsNone(o) == o = <<>>
\* `o or d` for an Optional[float]: None and 0 are both falsy
OrElse(o, d) == IF IsNone(o) \/ o[1] = 0 THEN d ELSE o[1]

Ok(v) == [err |-> "", v |-> v]
Raise(e) == [err |-> e, v |-> 0]

Abs(a) == IF a < 0 THEN -a ELSE a
Min(a, b) == IF a <= b THEN a ELSE b
Max(a, b) == IF a >= b THEN a ELSE b

\* eighths of a stage unit per unit
Scale == 2 * 2 * 2
U(a) == Scale * a

\* math.ceil(a / b) for b # 0
Ceil(a, b) == IF b > 0 THEN -((-a) \div b) ELSE -(a \div (-b))
\* math.ceil(a / b): a float division by zero raises ZeroDivisionError
CeilDiv(a, b) == IF b = 0 THEN Raise("ZeroDivisionError") ELSE Ok(Ceil(a, b))

NoPlan == [kind |-> "none"]
NoCall == [kind |-> "none"]
NotCalled == [called |-> FALSE, err |-> "", v |-> 0]
Called(r) == [called |-> TRUE, err |-> r.err, v |-> r.v]

(***************************************************************************)
(* _GridPlan                                                               *)
(***************************************************************************)
\* the `overlap` argument: a scalar, or a sequence of some length
\* [scalar |-> TRUE, v |-> <<a>>]  or  [scalar |-> FALSE, v |-> <<a, b, ...>>]
_validate_overlap(v) ==
    IF v.scalar THEN Ok(<<v.v[1], v.v[1]>>)
    ELSE IF Len(v.v) = 2 THEN Ok(<<v.v[1], v.v[2]>>)
    ELSE Raise("ValueError")

_step_size(p, fov_width, fov_height) ==
    << fov_width - (fov_width * p.overlap[1]) \div 100,
       fov_height - (fov_height * p.overlap[2]) \div 100 >>

(***************************************************************************)
(* OrderMode.generate_indices (useq._point_visiting): the (row, col) pairs *)
(* of a rows x cols raster in the order of the mode; nothing for an empty  *)
(* or negative shape.                                                      *)
(***************************************************************************)
Modes == {"row_wise", "column_wise", "row_wise_snake", "column_wise_snake"}

generate_indices(mode, rows, cols) ==
    IF rows <= 0 \/ cols <= 0 THEN <<>>
    ELSE [k \in 1..(rows * cols) |->
            IF mode \in {"row_wise", "row_wise_snake"}
            THEN LET r == (k - 1) \div cols
                     c == (k - 1) % cols
                 IN  <<r, IF mode = "row_wise_snake" /\ r % 2 = 1
                          THEN cols - 1 - c ELSE c>>
            ELSE LET c == (k - 1) \div rows
                     r == (k - 1) % rows
                 IN  <<IF mode = "column_wise_snake" /\ c % 2 = 1
                       THEN rows - 1 - r ELSE r, c>>]

(***************************************************************************)
(* f"{str(idx).zfill(4)}": the decimal digits of idx, left-padded with 0   *)
(* to at least four characters (a sequence of digits).                     *)
(***************************************************************************)
RECURSIVE Str(_)
Str(n) == IF n < 10 THEN <<n>> ELSE Append(Str(n \div 10), n % 10)

RECURSIVE Zfill(_, _)
Zfill(s, width) == IF Len(s) >= width THEN s ELSE Zfill(<<0>> \o s, width)

PositionName(idx) == Zfill(Str(idx), 4)

(***************************************************************************)
(* GridFromEdges                                                           *)
(***************************************************************************)
\* a slip: the last partial step is dropped (floor instead of ceil)
GridFromEdges_nrows_floor(p, dy) ==
    IF IsNone(p.fov_height)
    THEN CeilDiv(Abs(p.top - p.bottom) + dy, dy)
    ELSE LET span == Abs(p.top - p.bottom)
         IN  IF span <= p.fov_height[1] THEN Ok(1)
             ELSE IF dy = 0 THEN Raise("ZeroDivisionError")
             ELSE Ok(-Ceil(-(span - p.fov_height[1]), dy) + 1)

GridFromEdges_nrows(p, dy) ==
    IF IsNone(p.fov_height)
    THEN CeilDiv(Abs(p.top - p.bottom) + dy, dy)
    ELSE LET span == Abs(p.top - p.bottom)
         IN  IF span <= p.fov_height[1] THEN Ok(1)
             ELSE LET q == CeilDiv(span - p.fov_height[1], dy)
                  IN  IF q.err # "" THEN q ELSE Ok(q.v + 1)

GridFromEdges_ncolumns(p, dx) ==
    IF IsNone(p.fov_width)
    THEN CeilDiv(Abs(p.right - p.left) + dx, dx)
    ELSE LET span == Abs(p.right - p.left)
         IN  IF span <= p.fov_width[1] THEN Ok(1)
             ELSE LET q == CeilDiv(span - p.fov_width[1], dx)
                  IN  IF q.err # "" THEN q ELSE Ok(q.v + 1)

\* a slip: the left edge is taken as given, not the smaller of left and right
GridFromEdges_offset_x_left(p, dx) ==
    Ok(p.left + OrElse(p.fov_width, 0) \div 2)

GridFromEdges_offset_x(p, dx) ==
    Ok(Min(p.left, p.right) + OrElse(p.fov_width, 0) \div 2)

GridFromEdges_offset_y(p, dy) ==
    Ok(Max(p.top, p.bottom) - OrElse(p.fov_height, 0) \div 2)

(***************************************************************************)
(* GridRowsColumns                                                         *)
(***************************************************************************)
GridRowsColumns_nrows(p, dy) == Ok(p.rows)

GridRowsColumns_ncolumns(p, dx) == Ok(p.columns)

GridRowsColumns_offset_x(p, dx) ==
    IF p.relative_to = "center" THEN Ok(-(((p.columns - 1) * dx) \div 2)) ELSE Ok(0)

GridRowsColumns_offset_y(p, dy) ==
    IF p.relative_to = "center" THEN Ok(((p.rows - 1) * dy) \div 2) ELSE Ok(0)

(***************************************************************************)
(* GridWidthHeight                                                         *)
(***************************************************************************)
GridWidthHeight_nrows(p, dy) == CeilDiv(p.height, dy)

GridWidthHeight_ncolumns(p, dx) == CeilDiv(p.width, dx)

GridWidthHeight_offset_x(p, dx) ==
    IF p.relative_to = "center"
    THEN LET n == GridWidthHeight_ncolumns(p, dx)
         IN  IF n.err # "" THEN n ELSE Ok(-(((n.v - 1) * dx) \div 2))
    ELSE Ok(0)

GridWidthHeight_offset_y(p, dy) ==
    IF p.relative_to = "center"
    THEN LET n == GridWidthHeight_nrows(p, dy)
         IN  IF n.err # "" THEN n ELSE Ok(((n.v - 1) * dy) \div 2)
    ELSE Ok(0)

(***************************************************************************)
(* The geometry collaborator (shapely), on integer coordinates.            *)
(* A point is <<x, y>>; a ring is the sequence of a polygon's vertices; a  *)
(* shape [ring, offset] is the ring dilated by a disc of radius `offset`   *)
(* (buffer with round caps and joins); a box is [x0, y0, x1, y1].          *)
(***************************************************************************)
Sign(a) == IF a > 0 THEN 1 ELSE IF a < 0 THEN -1 ELSE 0
Cross(o, a, b) == (a[1] - o[1]) * (b[2] - o[2]) - (a[2] - o[2]) * (b[1] - o[1])
Dot(o, a, b) == (a[1] - o[1]) * (b[1] - o[1]) + (a[2] - o[2]) * (b[2] - o[2])
Edges(ring) == {<<ring[i], ring[(i % Len(ring)) + 1]>> : i \in 1..Len(ring)}
InSpan(p, a, b) ==
    /\ Min(a[1], b[1]) <= p[1] /\ p[1] <= Max(a[1], b[1])
    /\ Min(a[2], b[2]) <= p[2] /\ p[2] <= Max(a[2], b[2])

\* closed segments ab and cd share a point
SegmentsIntersect(a, b, c, d) ==
    LET d1 == Sign(Cross(c, d, a))
        d2 == Sign(Cross(c, d, b))
        d3 == Sign(Cross(a, b, c))
        d4 == Sign(Cross(a, b, d))
    IN  \/ d1 * d2 < 0 /\ d3 * d4 < 0
        \/ d1 = 0 /\ InSpan(a, c, d)
        \/ d2 = 0 /\ InSpan(b, c, d)
        \/ d3 = 0 /\ InSpan(c, a, b)
        \/ d4 = 0 /\ InSpan(d, a, b)

\* Polygon(ring).is_valid: a ring with area whose non-adjacent edges do not meet
is_valid(ring) ==
    LET n == Len(ring)
        nxt(i) == (i % n) + 1
    IN  /\ n >= 3
        /\ \E i \in 1..n : Cross(ring[i], ring[nxt(i)], ring[nxt(nxt(i))]) # 0
        /\ \A i, j \in 1..n :
              (i < j /\ nxt(i) # j /\ nxt(j) # i)
                  => ~SegmentsIntersect(ring[i], ring[nxt(i)], ring[j], ring[nxt(j)])

\* a vertex is a hull vertex unless it lies in a triangle (or on a segment) of others
InTriangle(p, a, b, c) ==
    LET s == {Sign(Cross(a, b, p)), Sign(Cross(b, c, p)), Sign(Cross(c, a, p))}
    IN  /\ ~({1, -1} \subseteq s)
        /\ (s = {0} => (InSpan(p, a, b) \/ InSpan(p, b, c) \/ InSpan(p, c, a)))

\* poly.convex_hull of a simple ring: its extreme vertices, in ring order
convex_hull(ring) ==
    LET others(i) == {ring[j] : j \in 1..Len(ring)} \ {ring[i]}
        extreme(i) == ~\E a, b, c \in others(i) : InTriangle(ring[i], a, b, c)
        keep == {i \in 1..Len(ring) : extreme(i)}
        RECURSIVE pick(_)
        pick(i) == IF i > Len(ring) THEN <<>>
                   ELSE (IF i \in keep THEN <<ring[i]>> ELSE <<>>) \o pick(i + 1)
    IN  pick(1)

\* poly.bounds: (minx, miny, maxx, maxy)
bounds(shape) ==
    LET xs == {shape.ring[i][1] : i \in 1..Len(shape.ring)}
        ys == {shape.ring[i][2] : i \in 1..Len(shape.ring)}
        lo(S) == CHOOSE m \in S : \A e \in S : m <= e
        hi(S) == CHOOSE m \in S : \A e \in S : m >= e
    IN  <<lo(xs) - shape.offset, lo(ys) - shape.offset,
          hi(xs) + shape.offset, hi(ys) + shape.offset>>

\* box(minx, miny, maxx, maxy)
box(x0, y0, x1, y1) == [x0 |-> x0, y0 |-> y0, x1 |-> x1, y1 |-> y1]
Corners(R) == {<<R.x0, R.y0>>, <<R.x1, R.y0>>, <<R.x1, R.y1>>, <<R.x0, R.y1>>}
Sides(R) == Edges(<<<<R.x0, R.y0>>, <<R.x1, R.y0>>, <<R.x1, R.y1>>, <<R.x0, R.y1>>>>)

\* closed segment ab meets the closed box R (separating axes: x, y, normal of ab)
SegIntersectsBox(a, b, R) ==
    /\ Max(a[1], b[1]) >= R.x0 /\ Min(a[1], b[1]) <= R.x1
    /\ Max(a[2], b[2]) >= R.y0 /\ Min(a[2], b[2]) <= R.y1
    /\ LET s == {Sign(Cross(a, b, c)) : c \in Corners(R)}
       IN  s # {1} /\ s # {-1}

\* p is inside the ring (crossing number; p is not on the ring where this is used)
PointInRing(p, ring) ==
    LET crosses(e) ==
            LET a == e[1]
                b == e[2]
                dy == b[2] - a[2]
            IN  /\ (a[2] > p[2]) # (b[2] > p[2])
                /\ IF dy > 0
                   THEN (p[1] - a[1]) * dy < (p[2] - a[2]) * (b[1] - a[1])
                   ELSE (p[1] - a[1]) * dy > (p[2] - a[2]) * (b[1] - a[1])
    IN  Cardinality({e \in Edges(ring) : crosses(e)}) % 2 = 1

\* the distance from point p to segment ab is at most r
PointSegWithin(p, a, b, r) ==
    LET t == Dot(a, p, b)
        l2 == Dot(a, b, b)
    IN  IF t <= 0 THEN Dot(p, a, a) <= r * r
        ELSE IF t >= l2 THEN Dot(p, b, b) <= r * r
        ELSE Cross(a, b, p) * Cross(a, b, p) <= r * r * l2

SegBoxWithin(a, b, R, r) ==
    \/ \E s \in Sides(R) : PointSegWithin(a, s[1], s[2], r) \/ PointSegWithin(b, s[1], s[2], r)
    \/ \E c \in Corners(R) : PointSegWithin(c, a, b, r)

\* prepared.intersects(tile): the dilated polygon and the closed box share a point
intersects(shape, R) ==
    \/ \E e \in Edges(shape.ring) : SegIntersectsBox(e[1], e[2], R)
    \/ PointInRing(<<R.x0, R.y0>>, shape.ring)
    \/ /\ shape.offset > 0
       /\ \E e \in Edges(shape.ring) : SegBoxWithin(e[1], e[2], R, shape.offset)

(***************************************************************************)
(* GridFromPolygon                                                         *)
(***************************************************************************)
\* _offset_polygon: geom.buffer(distance=offset, cap_style="round", join_style="round")
_offset_polygon(shape, offset) == [shape EXCEPT !.offset = offset]

\* the fields, validated (min_length = 3, overlap), then model_post_init; `a` holds
\* the arguments, a.overlap the outcome of _validate_overlap
GridFromPolygon_model_post_init(a) ==
    LET poly0 == [ring |-> a.polygon, offset |-> 0]
        poly1 == IF ~IsNone(a.offset) THEN _offset_polygon(poly0, a.offset[1]) ELSE poly0
        poly  == IF a.convex_hull THEN [poly1 EXCEPT !.ring = convex_hull(poly1.ring)] ELSE poly1
        b     == bounds(poly)
    IN  IF Len(a.polygon) < 3 \/ a.overlap.err # "" THEN Raise("ValidationError")
        ELSE IF ~is_valid(poly0.ring) THEN Raise("ValueError")
        ELSE IF IsNone(a.fov_height) \/ IsNone(a.fov_width) THEN Raise("TypeError")
        ELSE Ok([kind |-> "GridFromPolygon",
                 polygon |-> a.polygon, convex_hull |-> a.convex_hull, offset |-> a.offset,
                 overlap |-> a.overlap.v, mode |-> a.mode,
                 fov_width |-> a.fov_width, fov_height |-> a.fov_height,
                 _prepared_poly |-> poly,
                 _top_bound    |-> b[4] + a.fov_height[1] \div 4,
                 _left_bound   |-> b[1] - a.fov_width[1] \div 4,
                 _bottom_bound |-> b[2] - a.fov_height[1] \div 4,
                 _right_bound  |-> b[3] + a.fov_width[1] \div 4])

GridFromPolygon_nrows(p, dy) ==
    IF IsNone(p.fov_height)
    THEN CeilDiv(Abs(p._top_bound - p._bottom_bound) + dy, dy)
    ELSE LET span == Abs(p._top_bound - p._bottom_bound)
         IN  IF span <= p.fov_height[1] THEN Ok(1)
             ELSE LET q == CeilDiv(span - p.fov_height[1], dy)
                  IN  IF q.err # "" THEN q ELSE Ok(q.v + 1)

GridFromPolygon_ncolumns(p, dx) ==
    IF IsNone(p.fov_width)
    THEN CeilDiv(Abs(p._right_bound - p._left_bound) + dx, dx)
    ELSE LET span == Abs(p._right_bound - p._left_bound)
         IN  IF span <= p.fov_width[1] THEN Ok(1)
             ELSE LET q == CeilDiv(span - p.fov_width[1], dx)
                  IN  IF q.err # "" THEN q ELSE Ok(q.v + 1)

GridFromPolygon_offset_x(p, dx) ==
    Ok(Min(p._left_bound, p._right_bound) + OrElse(p.fov_width, 0) \div 2)

GridFromPolygon_offset_y(p, dy) ==
    Ok(Max(p._top_bound, p._bottom_bound) - OrElse(p.fov_height, 0) \div 2)

(***************************************************************************)
(* _GridPlan: the methods every grid plan shares                           *)
(***************************************************************************)
_nrows(p, dy) ==
    CASE p.kind = "GridFromEdges"   -> GridFromEdges_nrows(p, dy)
      [] p.kind = "GridRowsColumns" -> GridRowsColumns_nrows(p, dy)
      [] p.kind = "GridWidthHeight" -> GridWidthHeight_nrows(p, dy)
      [] p.kind = "GridFromPolygon" -> GridFromPolygon_nrows(p, dy)

_ncolumns(p, dx) ==
    CASE p.kind = "GridFromEdges"   -> GridFromEdges_ncolumns(p, dx)
      [] p.kind = "GridRowsColumns" -> GridRowsColumns_ncolumns(p, dx)
      [] p.kind = "GridWidthHeight" -> GridWidthHeight_ncolumns(p, dx)
      [] p.kind = "GridFromPolygon" -> GridFromPolygon_ncolumns(p, dx)

_offset_x(p, dx) ==
    CASE p.kind = "GridFromEdges"   -> GridFromEdges_offset_x(p, dx)
      [] p.kind = "GridRowsColumns" -> GridRowsColumns_offset_x(p, dx)
      [] p.kind = "GridWidthHeight" -> GridWidthHeight_offset_x(p, dx)
      [] p.kind = "GridFromPolygon" -> GridFromPolygon_offset_x(p, dx)

_offset_y(p, dy) ==
    CASE p.kind = "GridFromEdges"   -> GridFromEdges_offset_y(p, dy)
      [] p.kind = "GridRowsColumns" -> GridRowsColumns_offset_y(p, dy)
      [] p.kind = "GridWidthHeight" -> GridWidthHeight_offset_y(p, dy)
      [] p.kind = "GridFromPolygon" -> GridFromPolygon_offset_y(p, dy)

\* the first error among the results rs (in evaluation order), or Ok(v)
Try(rs, v) ==
    LET bad == {i \in 1..Len(rs) : rs[i].err # ""}
    IN  IF bad = {} THEN Ok(v)
        ELSE rs[CHOOSE i \in bad : \A j \in bad : i <= j]

\* a slip: the FOV check fires only when both dimensions are unset
_GridPlan_num_positions_both(p) ==
    IF /\ p.kind \in {"GridFromEdges", "GridWidthHeight", "GridFromPolygon"}
       /\ (IsNone(p.fov_width) /\ IsNone(p.fov_height))
    THEN Raise("ValueError")
    ELSE LET d == _step_size(p, OrElse(p.fov_width, U(1)), OrElse(p.fov_height, U(1)))
             rows == _nrows(p, d[2])
             cols == _ncolumns(p, d[1])
         IN  Try(<<rows, cols>>, rows.v * cols.v)

_GridPlan_num_positions(p) ==
    IF /\ p.kind \in {"GridFromEdges", "GridWidthHeight", "GridFromPolygon"}
       /\ (IsNone(p.fov_width) \/ IsNone(p.fov_height))
    THEN Raise("ValueError")
    ELSE LET d == _step_size(p, OrElse(p.fov_width, U(1)), OrElse(p.fov_height, U(1)))
             rows == _nrows(p, d[2])
             cols == _ncolumns(p, d[1])
         IN  Try(<<rows, cols>>, rows.v * cols.v)

\* list(plan.iter_grid_positions(fov_width, fov_height)) with order = None
iter_grid_positions(p, fov_width, fov_height) ==
    LET _fov_width  == OrElse(fov_width, OrElse(p.fov_width, U(1)))
        _fov_height == OrElse(fov_height, OrElse(p.fov_height, U(1)))
        d    == _step_size(p, _fov_width, _fov_height)
        dx   == d[1]
        dy   == d[2]
        rows == _nrows(p, dy)
        cols == _ncolumns(p, dx)
        x0   == _offset_x(p, dx)
        y0   == _offset_y(p, dy)
        idxs == generate_indices(p.mode, rows.v, cols.v)
    IN  Try(<<rows, cols, x0, y0>>,
            [k \in 1..Len(idxs) |->
                [x |-> x0.v + idxs[k][2] * dx,
                 y |-> y0.v - idxs[k][1] * dy,
                 row |-> idxs[k][1],
                 col |-> idxs[k][2],
                 name |-> PositionName(k - 1)]])

\* a slip: the tile tested is half the FOV wide and high
_intersect_raster_with_polygon_half(p) ==
    LET grid == iter_grid_positions(p, None, None)
        tile(position) ==
            box(position.x - p.fov_width[1] \div 4,
                position.y - p.fov_height[1] \div 4,
                position.x + p.fov_width[1] \div 4,
                position.y + p.fov_height[1] \div 4)
        hit(position) == intersects(p._prepared_poly, tile(position))
    IN  IF grid.err # "" THEN grid
        ELSE IF grid.v # <<>> /\ (IsNone(p.fov_width) \/ IsNone(p.fov_height))
        THEN Raise("TypeError")
        ELSE Ok(SelectSeq(grid.v, hit))

\* list(self._intersect_raster_with_polygon())
_intersect_raster_with_polygon(p) ==
    LET grid == iter_grid_positions(p, None, None)
        tile(position) ==
            box(position.x - p.fov_width[1] \div 2,
                position.y - p.fov_height[1] \div 2,
                position.x + p.fov_width[1] \div 2,
                position.y + p.fov_height[1] \div 2)
        hit(position) == intersects(p._prepared_poly, tile(position))
    IN  IF grid.err # "" THEN grid
        ELSE IF grid.v # <<>> /\ (IsNone(p.fov_width) \/ IsNone(p.fov_height))
        THEN Raise("TypeError")
        ELSE Ok(SelectSeq(grid.v, hit))

GridFromPolygon_num_positions(p) ==
    IF IsNone(p.fov_width) \/ IsNone(p.fov_height)
    THEN Raise("ValueError")
    ELSE LET r == _intersect_raster_with_polygon(p)
         IN  IF r.err # "" THEN r ELSE Ok(Len(r.v))

num_positions(p) ==
    IF p.kind = "GridFromPolygon" THEN GridFromPolygon_num_positions(p)
    ELSE _GridPlan_num_positions(p)

\* list(iter(plan))
GridIter(p) ==
    IF p.kind = "GridFromPolygon" THEN _intersect_raster_with_polygon(p)
    ELSE iter_grid_positions(p, None, None)

(***************************************************************************)
(* Construction: pydantic validates the fields (a failing validator or     *)
(* constraint raises ValidationError), then runs model_post_init.          *)
(***************************************************************************)
GridFromEdges(a) ==
    LET ov == _validate_overlap(a.overlap)
    IN  IF ov.err # "" THEN Raise("ValidationError")
        ELSE Ok([kind |-> "GridFromEdges",
                 top |-> a.top, left |-> a.left, bottom |-> a.bottom, right |-> a.right,
                 overlap |-> ov.v, mode |-> a.mode,
                 fov_width |-> a.fov_width, fov_height |-> a.fov_height])

GridRowsColumns(a) ==
    LET ov == _validate_overlap(a.overlap)
    IN  IF ov.err # "" \/ ~(a.rows >= 1) \/ ~(a.columns >= 1) THEN Raise("ValidationError")
        ELSE Ok([kind |-> "GridRowsColumns",
                 rows |-> a.rows, columns |-> a.columns, relative_to |-> a.relative_to,
                 overlap |-> ov.v, mode |-> a.mode,
                 fov_width |-> a.fov_width, fov_height |-> a.fov_height])

GridWidthHeight(a) ==
    LET ov == _validate_overlap(a.overlap)
    IN  IF ov.err # "" \/ ~(a.width > 0) \/ ~(a.height > 0) THEN Raise("ValidationError")
        ELSE Ok([kind |-> "GridWidthHeight",
                 width |-> a.width, height |-> a.height, relative_to |-> a.relative_to,
                 overlap |-> ov.v, mode |-> a.mode,
                 fov_width |-> a.fov_width, fov_height |-> a.fov_height])

GridFromPolygon(a) ==
    GridFromPolygon_model_post_init([a EXCEPT !.overlap = _validate_overlap(a.overlap)])

(***************************************************************************)
(* The arguments the model constructs plans from                           *)
(***************************************************************************)
MaxCoord == 2
MaxRows == 3
MaxSize == 3

Coords == {U(c) : c \in 0..MaxCoord}
FovOpts == {None, Some(U(1)), Some(U(2))}
OverlapArgs ==
    {[scalar |-> TRUE, v |-> <<o>>] : o \in {-50, 0, 25, 50, 100, 150}}
        \cup {[scalar |-> FALSE, v |-> <<0, 50>>], [scalar |-> FALSE, v |-> <<150, 0>>],
              [scalar |-> FALSE, v |-> <<0, 0, 0>>]}
RelativeTo == {"center", "top_left"}

\* edge-bounded(top=100, left=0, bottom=0, right=100, fov=(50,50), overlap=0)
ScenarioEdges ==
    [kind |-> "GridFromEdges", top |-> U(100), left |-> 0, bottom |-> 0, right |-> U(100),
     overlap |-> [scalar |-> TRUE, v |-> <<0>>], mode |-> "row_wise_snake",
     fov_width |-> Some(U(50)), fov_height |-> Some(U(50))]

EdgesArgs ==
    [kind : {"GridFromEdges"}, top : Coords, left : Coords, bottom : Coords, right : Coords,
     overlap : OverlapArgs, mode : Modes, fov_width : FovOpts, fov_height : FovOpts]
        \cup {ScenarioEdges}

RowsColumnsArgs ==
    [kind : {"GridRowsColumns"}, rows : 0..MaxRows, columns : 0..MaxRows,
     relative_to : RelativeTo,
     overlap : OverlapArgs, mode : Modes, fov_width : FovOpts, fov_height : FovOpts]

WidthHeightArgs ==
    [kind : {"GridWidthHeight"}, width : {U(w) : w \in 0..MaxSize}, height : {U(h) : h \in 0..MaxSize},
     relative_to : RelativeTo,
     overlap : OverlapArgs, mode : Modes, fov_width : FovOpts, fov_height : FovOpts]

\* a square, a right triangle, an L, a bow-tie (self-intersecting), two vertices
Ring(vertices) == [i \in 1..Len(vertices) |-> <<U(vertices[i][1]), U(vertices[i][2])>>]
Polygons ==
    { Ring(<<<<0, 0>>, <<2, 0>>, <<2, 2>>, <<0, 2>>>>),
      Ring(<<<<0, 0>>, <<3, 0>>, <<0, 3>>>>),
      Ring(<<<<0, 0>>, <<3, 0>>, <<3, 1>>, <<1, 1>>, <<1, 3>>, <<0, 3>>>>),
      Ring(<<<<0, 0>>, <<2, 2>>, <<2, 0>>, <<0, 2>>>>),
      Ring(<<<<0, 0>>, <<2, 2>>>>) }

PolygonArgs ==
    [kind : {"GridFromPolygon"}, polygon : Polygons, convex_hull : BOOLEAN,
     offset : {None, Some(U(1))},
     overlap : OverlapArgs, mode : Modes, fov_width : FovOpts, fov_height : FovOpts]

(***************************************************************************)
(* State machine of the grid plans                                         *)
(***************************************************************************)
Idle ==
    [pc |-> "idle", seed |-> 0, points |-> <<>>, needed_points |-> 0, start_at |-> 0,
     per_iter |-> 0, tries |-> 0, drawn |-> 0]

Init ==
    /\ plan = NoPlan
    /\ call = NoCall
    /\ ctorErr = ""
    /\ numResult = NotCalled
    /\ iterResult = NotCalled
    /\ warnings = <<>>
    /\ rnd = Idle
    /\ runs = <<>>

\* Plan(**a): the plan exists only if construction raised nothing
Construct(a, r) ==
    /\ call' = a
    /\ ctorErr' = r.err
    /\ plan' = IF r.err = "" THEN r.v ELSE NoPlan
    /\ UNCHANGED <<numResult, iterResult, warnings, rnd, runs>>

ConstructEdges ==
    /\ call = NoCall
    /\ \E a \in EdgesArgs : Construct(a, GridFromEdges(a))

ConstructRowsColumns ==
    /\ call = NoCall
    /\ \E a \in RowsColumnsArgs : Construct(a, GridRowsColumns(a))

ConstructWidthHeight ==
    /\ call = NoCall
    /\ \E a \in WidthHeightArgs : Construct(a, GridWidthHeight(a))

ConstructPolygon ==
    /\ call = NoCall
    /\ \E a \in PolygonArgs : Construct(a, GridFromPolygon(a))

GridKinds == {"GridFromEdges", "GridRowsColumns", "GridWidthHeight", "GridFromPolygon"}

\* plan.num_positions()
NumPositions ==
    /\ plan.kind \in GridKinds
    /\ ~numResult.called
    /\ numResult' = Called(num_positions(plan))
    /\ UNCHANGED <<plan, call, ctorErr, iterResult, warnings, rnd, runs>>

\* list(plan)
Iterate ==
    /\ plan.kind \in GridKinds
    /\ ~iterResult.called
    /\ iterResult' = Called(GridIter(plan))
    /\ UNCHANGED <<plan, call, ctorErr, numResult, warnings, rnd, runs>>

Next ==
    \/ ConstructEdges
    \/ ConstructRowsColumns
    \/ ConstructWidthHeight
    \/ ConstructPolygon
    \/ NumPositions
    \/ Iterate

Spec == Init /\ [][Next]_vars

NextEdges == ConstructEdges \/ NumPositions \/ Iterate
SpecEdges == Init /\ [][NextEdges]_vars

NextRelative == ConstructRowsColumns \/ ConstructWidthHeight \/ NumPositions \/ Iterate
SpecRelative == Init /\ [][NextRelative]_vars

NextPolygon == ConstructPolygon \/ NumPositions \/ Iterate
SpecPolygon == Init /\ [][NextPolygon]_vars

\* the outcome of list(plan.iter_grid_positions(fov_width, fov_height)), with the
\* arguments of the call
CalledWith(r, fov_width, fov_height) ==
    [called |-> TRUE, err |-> r.err, v |-> r.v,
     fov_width |-> fov_width, fov_height |-> fov_height]

\* list(plan.iter_grid_positions(fov_width=w, fov_height=h)): the FOV given by the caller
IterateWithFov ==
    /\ plan.kind \in GridKinds \ {"GridFromPolygon"}
    /\ ~iterResult.called
    /\ \E w, h \in FovOpts :
          iterResult' = CalledWith(iter_grid_positions(plan, w, h), w, h)
    /\ UNCHANGED <<plan, call, ctorErr, numResult, warnings, rnd, runs>>

NextSupplied == ConstructEdges \/ NumPositions \/ Iterate \/ IterateWithFov
SpecSupplied == Init /\ [][NextSupplied]_vars

(***************************************************************************)
(* RandomPoints                                                            *)
(***************************************************************************)
MIN_RANDOM_POINTS == 10000

\* np.random.RandomState(seed): the generator states it may start in.  A seed fixes
\* the state; None seeds from the operating system's entropy.  The generator is a
\* full-period congruential one over 0..63; each point consumes one step and takes
\* its uniform draws u1, u2, u3 (multiples of 1/4 in [0, 1)) from the new state.
MaxEntropy == 3

\* a slip: the seed is not handed to the generator
RandomState_entropy(random_seed) == 0..MaxEntropy

RandomState(random_seed) ==
    IF IsNone(random_seed) THEN 0..MaxEntropy ELSE {random_seed[1] % 64}

Advance(s) == (5 * s + 3) % 64
RECURSIVE AdvanceBy(_, _)
AdvanceBy(s, n) == IF n = 0 THEN s ELSE AdvanceBy(Advance(s), n - 1)
U1(s) == s % 4
U2(s) == (s \div 4) % 4
U3(s) == (s \div 16) % 4

\* xy[:, 0] *= (max_width / 2) * cos(angle), xy[:, 1] *= (max_height / 2) * sin(angle),
\* angle = u3 * 2 * pi (a multiple of a quarter turn)
_random_points_in_ellipse(seed, n_points, max_width, max_height) ==
    [k \in 1..n_points |->
        LET s == AdvanceBy(seed, k)
            cos == CASE U3(s) = 0 -> 1 [] U3(s) = 2 -> -1 [] OTHER -> 0
            sin == CASE U3(s) = 1 -> 1 [] U3(s) = 3 -> -1 [] OTHER -> 0
        IN  << (U1(s) * (max_width \div 2) * cos) \div 4,
               (U2(s) * (max_height \div 2) * sin) \div 4 >>]

\* xy[:, 0] = xy[:, 0] * max_width - max_width / 2, likewise y
_random_points_in_rectangle(seed, n_points, max_width, max_height) ==
    [k \in 1..n_points |->
        LET s == AdvanceBy(seed, k)
        IN  << (U1(s) * max_width) \div 4 - max_width \div 2,
               (U2(s) * max_height) \div 4 - max_height \div 2 >>]

\* _POINTS_GENERATORS[self.shape]
_POINTS_GENERATORS(shape, seed, n_points, max_width, max_height) ==
    IF shape = "ellipse"
    THEN _random_points_in_ellipse(seed, n_points, max_width, max_height)
    ELSE _random_points_in_rectangle(seed, n_points, max_width, max_height)

\* a slip: the candidate is compared with the most recent point only
_is_a_valid_point_last(points, x, y, min_dist_x, min_dist_y) ==
    ~(/\ points # <<>>
      /\ Abs(x - points[Len(points)][1]) < min_dist_x
      /\ Abs(y - points[Len(points)][2]) < min_dist_y)

_is_a_valid_point(points, x, y, min_dist_x, min_dist_y) ==
    ~\E i \in 1..Len(points) :
        Abs(x - points[i][1]) < min_dist_x /\ Abs(y - points[i][2]) < min_dist_y

\* start_at is [literal |-> FALSE, i |-> index] or [literal |-> TRUE, x |-> , y |-> ]
IndexStart(i) == [literal |-> FALSE, i |-> i, x |-> 0, y |-> 0]
LiteralStart(x, y) == [literal |-> TRUE, i |-> 0, x |-> x, y |-> y]

\* a slip: the index is clamped to num_points, one past the last point
_validate_startat_past(p) ==
    IF ~p.start_at.literal /\ p.start_at.i > (p.num_points - 1)
    THEN [plan |-> [p EXCEPT !.start_at = IndexStart(p.num_points)], warned |-> TRUE]
    ELSE [plan |-> p, warned |-> FALSE]

\* the validator that runs after the fields: [plan, warned]
_validate_startat(p) ==
    IF ~p.start_at.literal /\ p.start_at.i > (p.num_points - 1)
    THEN [plan |-> [p EXCEPT !.start_at = IndexStart(p.num_points - 1)], warned |-> TRUE]
    ELSE [plan |-> p, warned |-> FALSE]

\* RandomPoints(**a): num_points > 0, max_width > 0, max_height > 0, start_at >= 0
RandomPoints(a) ==
    IF \/ ~(a.num_points > 0) \/ ~(a.max_width > 0) \/ ~(a.max_height > 0)
       \/ (~a.start_at.literal /\ ~(a.start_at.i >= 0))
    THEN Raise("ValidationError")
    ELSE Ok(_validate_startat([a EXCEPT !.kind = "RandomPoints"]))

(***************************************************************************)
(* TraversalOrder (useq._point_visiting), as nearest_neighbor: from the     *)
(* point at index start_at, always on to the nearest point not yet visited *)
(* (the first of several equally near); an index past the end raises.      *)
(***************************************************************************)
Dist2(a, b) == (a[1] - b[1]) * (a[1] - b[1]) + (a[2] - b[2]) * (a[2] - b[2])

RECURSIVE NearestPath(_, _, _)
NearestPath(points, path, left) ==
    IF left = {} THEN path
    ELSE LET here == points[path[Len(path)]]
             best == CHOOSE i \in left :
                        \A j \in left :
                            \/ Dist2(points[i], here) < Dist2(points[j], here)
                            \/ Dist2(points[i], here) = Dist2(points[j], here) /\ i <= j
         IN  NearestPath(points, Append(path, best), left \ {best})

order_points(points, start_at) ==
    IF start_at + 1 > Len(points) THEN Raise("IndexError")
    ELSE LET path == NearestPath(points, <<start_at + 1>>, (1..Len(points)) \ {start_at + 1})
         IN  Ok([k \in 1..Len(points) |-> points[path[k]]])

(***************************************************************************)
(* RandomPoints.__iter__                                                   *)
(***************************************************************************)
\* a slip: the for loop goes on after num_points are held (no break)
RECURSIVE Accept_no_break(_, _, _)
Accept_no_break(points, candidates, p) ==
    IF candidates = <<>> THEN points
    ELSE LET c == Head(candidates)
         IN  IF _is_a_valid_point(points, c[1], c[2], p.fov_width[1], p.fov_height[1])
             THEN Accept_no_break(Append(points, c), Tail(candidates), p)
             ELSE Accept_no_break(points, Tail(candidates), p)

\* for p in candidates: accept the valid ones until num_points are held
RECURSIVE Accept(_, _, _)
Accept(points, candidates, p) ==
    IF candidates = <<>> THEN points
    ELSE LET c == Head(candidates)
         IN  IF _is_a_valid_point(points, c[1], c[2], p.fov_width[1], p.fov_height[1])
             THEN IF Len(points) + 1 >= p.num_points
                  THEN Append(points, c)
                  ELSE Accept(Append(points, c), Tail(candidates), p)
             ELSE Accept(points, Tail(candidates), p)

\* the fast-path test of __iter__
EasyCase(p) == p.allow_overlap \/ IsNone(p.fov_width) \/ IsNone(p.fov_height)

\* for idx, (x, y) in enumerate(points): RelativePosition(x=x, y=y, name=...)
Positions(points) ==
    [k \in 1..Len(points) |-> [x |-> points[k][1], y |-> points[k][2], name |-> PositionName(k - 1)]]

(***************************************************************************)
(* State machine of the random plan                                        *)
(***************************************************************************)
MaxPoints == 3
MaxRuns == 2

Shapes == {"ellipse", "rectangle"}
Orders == {"none", "nearest_neighbor"}

\* RandomPoints(num_points=5, max_width=10, max_height=10, random_seed=0,
\*              allow_overlap=True, order=None)
ScenarioRandom ==
    [kind |-> "RandomPoints", num_points |-> 5, max_width |-> U(10), max_height |-> U(10),
     shape |-> "ellipse", random_seed |-> Some(0), allow_overlap |-> TRUE, order |-> "none",
     start_at |-> IndexStart(0), fov_width |-> None, fov_height |-> None]

\* start_at=10 with num_points=5
ScenarioStartAt ==
    [ScenarioRandom EXCEPT !.start_at = IndexStart(10), !.order = "nearest_neighbor"]

\* plans whose FOV (half a unit) leaves room for every requested point
RandomArgs ==
    [kind : {"RandomPoints"}, num_points : 0..MaxPoints,
     max_width : {U(2)}, max_height : {U(2)}, shape : Shapes,
     random_seed : {None, Some(0), Some(1)}, allow_overlap : BOOLEAN, order : Orders,
     start_at : {IndexStart(-1), IndexStart(0), IndexStart(2), IndexStart(3),
                 LiteralStart(0, 0)},
     fov_width : {None, Some(4)}, fov_height : {None, Some(4)}]
        \cup {ScenarioRandom, ScenarioStartAt}

\* plans whose FOV (four units) is larger than the 2 x 2 area the points fall in
CrowdedArgs ==
    [kind : {"RandomPoints"}, num_points : 1..MaxPoints,
     max_width : {U(2)}, max_height : {U(2)}, shape : Shapes,
     random_seed : {Some(0)}, allow_overlap : {FALSE}, order : Orders,
     start_at : {IndexStart(0), IndexStart(2), LiteralStart(0, 0)},
     fov_width : {Some(U(4))}, fov_height : {Some(U(4))}]

\* RandomPoints(**a), with the warning of _validate_startat
ConstructRandomPoints(a) ==
    LET r == RandomPoints(a)
    IN  /\ call' = a
        /\ ctorErr' = r.err
        /\ plan' = IF r.err = "" THEN r.v.plan ELSE NoPlan
        /\ warnings' = IF r.err = "" /\ r.v.warned THEN Append(warnings, "start_at") ELSE warnings
        /\ UNCHANGED <<numResult, iterResult, rnd, runs>>

ConstructRandom ==
    /\ call = NoCall
    /\ \E a \in RandomArgs : ConstructRandomPoints(a)

ConstructCrowded ==
    /\ call = NoCall
    /\ \E a \in CrowdedArgs : ConstructRandomPoints(a)

\* plan.num_positions()
RandomNumPositions ==
    /\ plan.kind = "RandomPoints"
    /\ ~numResult.called
    /\ numResult' = Called(Ok(plan.num_points))
    /\ UNCHANGED <<plan, call, ctorErr, iterResult, warnings, rnd, runs>>

\* iter(plan), up to the choice of path: the fast path draws its points at once
Begin ==
    /\ plan.kind = "RandomPoints"
    /\ rnd.pc = "idle"
    /\ Len(runs) < MaxRuns
    /\ \E seed \in RandomState(plan.random_seed) :
          LET lit    == plan.start_at.literal
              points == IF lit THEN <<<<plan.start_at.x, plan.start_at.y>>>> ELSE <<>>
              needed_points == IF lit THEN plan.num_points - 1 ELSE plan.num_points
              start_at == IF lit THEN 0 ELSE plan.start_at.i
              frame  == [Idle EXCEPT !.seed = seed, !.points = points,
                                     !.needed_points = needed_points, !.start_at = start_at]
          IN  IF EasyCase(plan)
              THEN rnd' = [frame EXCEPT
                             !.pc = "emit",
                             !.seed = AdvanceBy(seed, needed_points),
                             !.drawn = needed_points,
                             !.points = points \o _POINTS_GENERATORS(plan.shape, seed,
                                            needed_points, plan.max_width, plan.max_height)]
              ELSE rnd' = [frame EXCEPT !.pc = "loop", !.per_iter = needed_points, !.tries = 0]
    /\ UNCHANGED <<plan, call, ctorErr, numResult, iterResult, warnings, runs>>

\* a slip: tries counts the batches, not the candidates
Round_counts_batches ==
    /\ rnd.pc = "loop"
    /\ rnd.tries < MIN_RANDOM_POINTS /\ Len(rnd.points) < plan.num_points
    /\ LET candidates == _POINTS_GENERATORS(plan.shape, rnd.seed, rnd.per_iter,
                                            plan.max_width, plan.max_height)
       IN  rnd' = [rnd EXCEPT !.seed = AdvanceBy(rnd.seed, rnd.per_iter),
                              !.tries = rnd.tries + 1,
                              !.drawn = rnd.drawn + Len(candidates),
                              !.points = Accept(rnd.points, candidates, plan)]
    /\ UNCHANGED <<plan, call, ctorErr, numResult, iterResult, warnings, runs>>

\* one pass of the while loop: a batch of per_iter candidates, each accepted if valid
Round ==
    /\ rnd.pc = "loop"
    /\ rnd.tries < MIN_RANDOM_POINTS /\ Len(rnd.points) < plan.num_points
    /\ LET candidates == _POINTS_GENERATORS(plan.shape, rnd.seed, rnd.per_iter,
                                            plan.max_width, plan.max_height)
       IN  rnd' = [rnd EXCEPT !.seed = AdvanceBy(rnd.seed, rnd.per_iter),
                              !.tries = rnd.tries + rnd.per_iter,
                              !.drawn = rnd.drawn + Len(candidates),
                              !.points = Accept(rnd.points, candidates, plan)]
    /\ UNCHANGED <<plan, call, ctorErr, numResult, iterResult, warnings, runs>>

\* the loop ends; a shortfall is reported by a warning
ExitLoop ==
    /\ rnd.pc = "loop"
    /\ ~(rnd.tries < MIN_RANDOM_POINTS /\ Len(rnd.points) < plan.num_points)
    /\ rnd' = [rnd EXCEPT !.pc = "emit"]
    /\ warnings' = IF Len(rnd.points) < plan.num_points
                   THEN Append(warnings, "shortfall") ELSE warnings
    /\ UNCHANGED <<plan, call, ctorErr, numResult, iterResult, runs>>

\* the points are ordered and emitted
Emit ==
    /\ rnd.pc = "emit"
    /\ LET ordered == IF plan.order # "none" THEN order_points(rnd.points, rnd.start_at)
                      ELSE Ok(rnd.points)
           out == IF ordered.err # "" THEN [err |-> ordered.err, v |-> <<>>]
                  ELSE Ok(Positions(ordered.v))
       IN  runs' = Append(runs, [err |-> out.err, v |-> out.v, seed |-> rnd.seed,
                                 drawn |-> rnd.drawn, found |-> Len(rnd.points)])
    /\ rnd' = Idle
    /\ UNCHANGED <<plan, call, ctorErr, numResult, iterResult, warnings>>

NextRandom ==
    \/ ConstructRandom
    \/ RandomNumPositions
    \/ Begin
    \/ Round
    \/ ExitLoop
    \/ Emit
SpecRandom == Init /\ [][NextRandom]_vars

NextSearch ==
    \/ ConstructCrowded
    \/ Begin
    \/ Round
    \/ ExitLoop
    \/ Emit
SpecSearch == Init /\ [][NextSearch]_vars

\* plans that avoid overlap: with a FOV of half a unit (room for every point), seeded
\* or not, and, for the least and the greatest num_points, with a FOV of four units
\* (room for one point only)
LoopArgs ==
    {[kind |-> "RandomPoints", num_points |-> a[1], max_width |-> U(2), max_height |-> U(2),
      shape |-> s, random_seed |-> a[2], allow_overlap |-> FALSE, order |-> "none",
      start_at |-> st, fov_width |-> Some(a[3]), fov_height |-> Some(a[3])] :
        s \in Shapes, st \in {IndexStart(0), LiteralStart(0, 0)},
        a \in ((1..MaxPoints) \X {None, Some(0)} \X {4})
                \cup ({1, MaxPoints} \X {Some(0)} \X {U(4)})}

ConstructLoop ==
    /\ call = NoCall
    /\ \E a \in LoopArgs : ConstructRandomPoints(a)

\* __iter__ is sequential code: once the while loop is entered its test and its
\* body keep being executed
NextLoop ==
    \/ ConstructLoop
    \/ Begin
    \/ Round
    \/ ExitLoop
    \/ Emit
SpecLoop == Init /\ [][NextLoop]_vars /\ WF_vars(Round) /\ WF_vars(ExitLoop)

(***************************************************************************)
(* Claims                                                                  *)
(***************************************************************************)
FovSet(p) == ~IsNone(p.fov_width) /\ ~IsNone(p.fov_height)
Rows(ps) == {ps[k].row : k \in 1..Len(ps)}
Cols(ps) == {ps[k].col : k \in 1..Len(ps)}
XY(ps) == [k \in 1..Len(ps) |-> <<ps[k].x, ps[k].y>>]

\* n tiles of size fov, one every step, reach across span
Covers(n, span, fov, step) == fov + (n - 1) * step >= span
\* n is the least count >= 1 that covers (step > 0: coverage grows with n)
LeastCover(n, span, fov, step) ==
    n >= 1 /\ Covers(n, span, fov, step) /\ (n > 1 => ~Covers(n - 1, span, fov, step))
ClosedCount(span, fov, step) == IF span <= fov THEN 1 ELSE Ceil(span - fov, step) + 1

\* C1: an edge-bounded grid with FOV set and 0 <= overlap < 100 has, along each
\* axis, the least number n >= 1 of tiles with fov + (n - 1) * step >= span, which
\* is 1 when span <= fov and ceil((span - fov) / step) + 1 otherwise; num_positions()
\* is the product of the two counts and iteration emits exactly those rows and columns.
C1_TileCount ==
    (/\ plan.kind = "GridFromEdges"
     /\ FovSet(plan)
     /\ plan.overlap[1] \in 0..99 /\ plan.overlap[2] \in 0..99)
    => LET fw == plan.fov_width[1]
           fh == plan.fov_height[1]
           dx == fw - (fw * plan.overlap[1]) \div 100
           dy == fh - (fh * plan.overlap[2]) \div 100
           w  == Abs(plan.right - plan.left)
           h  == Abs(plan.top - plan.bottom)
           nc == ClosedCount(w, fw, dx)
           nr == ClosedCount(h, fh, dy)
       IN  /\ LeastCover(nc, w, fw, dx)
           /\ LeastCover(nr, h, fh, dy)
           /\ numResult.called => (numResult.err = "" /\ numResult.v = nr * nc)
           /\ iterResult.called =>
                 /\ iterResult.err = ""
                 /\ Len(iterResult.v) = nr * nc
                 /\ Rows(iterResult.v) = 0..(nr - 1)
                 /\ Cols(iterResult.v) = 0..(nc - 1)

\* C1 witness: a grid with 25 % overlap whose span needs three rows, counted and iterated
C1_Witness ==
    /\ plan.kind = "GridFromEdges" /\ FovSet(plan)
    /\ plan.overlap = <<25, 25>>
    /\ Abs(plan.top - plan.bottom) > plan.fov_height[1]
    /\ numResult.called /\ iterResult.called
    /\ Cardinality(Rows(iterResult.v)) = 3 /\ Cardinality(Cols(iterResult.v)) = 1

\* C2: for an edge-bounded grid with FOV set, the k-th emitted position belongs to
\* the k-th pair (r, c) of the mode's traversal and lies at
\* x = min(left, right) + fov_width/2 + c*dx, y = max(top, bottom) - fov_height/2 - r*dy;
\* the scenario top=100, left=0, bottom=0, right=100, fov=(50,50), overlap=0 emits
\* (25,75), (75,75), (75,25), (25,25) in that order.
C2_EdgePositions ==
    (plan.kind = "GridFromEdges" /\ FovSet(plan) /\ iterResult.called /\ iterResult.err = "")
    => LET fw == plan.fov_width[1]
           fh == plan.fov_height[1]
           dx == fw - (fw * plan.overlap[1]) \div 100
           dy == fh - (fh * plan.overlap[2]) \div 100
           ps == iterResult.v
           nr == Cardinality(Rows(ps))
           nc == Cardinality(Cols(ps))
           order == generate_indices(plan.mode, nr, nc)
       IN  /\ Len(ps) = Len(order)
           /\ \A k \in 1..Len(ps) :
                 /\ <<ps[k].row, ps[k].col>> = order[k]
                 /\ ps[k].x = Min(plan.left, plan.right) + fw \div 2 + ps[k].col * dx
                 /\ ps[k].y = Max(plan.top, plan.bottom) - fh \div 2 - ps[k].row * dy
           /\ call = ScenarioEdges =>
                 XY(ps) = << <<U(25), U(75)>>, <<U(75), U(75)>>, <<U(75), U(25)>>, <<U(25), U(25)>> >>

\* C2 witness: the scenario constructed and iterated, four positions emitted
C2_Witness ==
    /\ call = ScenarioEdges
    /\ iterResult.called /\ iterResult.err = ""
    /\ Len(iterResult.v) = 4

RECURSIVE SumX(_)
SumX(ps) == IF ps = <<>> THEN 0 ELSE Head(ps).x + SumX(Tail(ps))
RECURSIVE SumY(_)
SumY(ps) == IF ps = <<>> THEN 0 ELSE Head(ps).y + SumY(Tail(ps))

\* rows x columns, or width x height with the FOV it requires
RelativeGrid(p) ==
    \/ p.kind = "GridRowsColumns"
    \/ p.kind = "GridWidthHeight" /\ FovSet(p)

\* C3: for every rows x columns grid and every width x height grid (FOV set where
\* required), num_positions() returns row_count * col_count, which is the number of
\* positions iteration emits, and with relative_to = center the x and the y
\* coordinates of the emitted positions each sum to 0; rows=2, columns=2, centered,
\* FOV unset emits (-0.5,0.5), (0.5,0.5), (0.5,-0.5), (-0.5,-0.5).
C3_CountAndCentroid ==
    (RelativeGrid(plan) /\ numResult.called /\ iterResult.called)
    => /\ numResult.err = "" /\ iterResult.err = ""
       /\ numResult.v = Len(iterResult.v)
       /\ numResult.v = Cardinality(Rows(iterResult.v)) * Cardinality(Cols(iterResult.v))
       /\ plan.relative_to = "center" => (SumX(iterResult.v) = 0 /\ SumY(iterResult.v) = 0)
       /\ (/\ plan.kind = "GridRowsColumns" /\ plan.rows = 2 /\ plan.columns = 2
           /\ plan.relative_to = "center" /\ plan.mode = "row_wise_snake"
           /\ IsNone(plan.fov_width) /\ IsNone(plan.fov_height) /\ plan.overlap = <<0, 0>>)
          => XY(iterResult.v) = << <<-4, 4>>, <<4, 4>>, <<4, -4>>, <<-4, -4>> >>

PreparedOf(p) ==
    LET ring == IF p.convex_hull THEN convex_hull(p.polygon) ELSE p.polygon
    IN  [ring |-> ring, offset |-> IF IsNone(p.offset) THEN 0 ELSE p.offset[1]]

\* the edge-bounded plan over the bounding box of the prepared polygon, expanded by
\* fov_width/4 on the left and right and fov_height/4 on the top and bottom
ExpandedEdges(p) ==
    LET b == bounds(PreparedOf(p))
    IN  [kind |-> "GridFromEdges",
         top |-> b[4] + p.fov_height[1] \div 4, left |-> b[1] - p.fov_width[1] \div 4,
         bottom |-> b[2] - p.fov_height[1] \div 4, right |-> b[3] + p.fov_width[1] \div 4,
         overlap |-> p.overlap, mode |-> p.mode,
         fov_width |-> p.fov_width, fov_height |-> p.fov_height]

\* the raster positions whose fov_width x fov_height rectangle meets the prepared polygon
Retained(p, raster) ==
    LET meets(pos) ==
            intersects(PreparedOf(p),
                       box(pos.x - p.fov_width[1] \div 2, pos.y - p.fov_height[1] \div 2,
                           pos.x + p.fov_width[1] \div 2, pos.y + p.fov_height[1] \div 2))
    IN  SelectSeq(raster, meets)

\* C5: a polygon-bounded plan emits, in raster order, exactly those positions of the
\* edge-bounded raster over the expanded bounding box whose FOV rectangle intersects
\* the prepared polygon, and num_positions() is the number of emitted positions
\* (an error of the raster is the error of both).
C5_PolygonRaster ==
    plan.kind = "GridFromPolygon"
    => LET raster == iter_grid_positions(ExpandedEdges(plan), None, None)
           kept   == Retained(plan, raster.v)
       IN  /\ iterResult.called =>
                 /\ iterResult.err = raster.err
                 /\ raster.err = "" => iterResult.v = kept
           /\ numResult.called =>
                 /\ numResult.err = raster.err
                 /\ raster.err = "" => numResult.v = Len(kept)

\* C5 witness: an L-shaped polygon counted and iterated, some raster tiles dropped
C5_Witness ==
    /\ plan.kind = "GridFromPolygon"
    /\ Len(plan.polygon) = 6
    /\ numResult.called /\ iterResult.called /\ iterResult.err = ""
    /\ Len(iterResult.v) > 0
    /\ Len(iterResult.v) < Len(iter_grid_positions(ExpandedEdges(plan), None, None).v)
    /\ numResult.v = Len(iterResult.v)

\* C10: constructing a polygon-bounded plan from a valid polygon with the FOV unset
\* raises nothing (the missing FOV is reported later, by num_positions() or iteration).
C10_ConstructsWithoutFov ==
    (/\ call.kind = "GridFromPolygon"
     /\ Len(call.polygon) >= 3 /\ is_valid(call.polygon)
     /\ _validate_overlap(call.overlap).err = ""
     /\ (IsNone(call.fov_width) \/ IsNone(call.fov_height)))
    => (ctorErr = "" /\ plan.kind = "GridFromPolygon")

\* the overlap-avoidance path of the random sampler is being run
Avoiding == plan.kind = "RandomPoints" /\ ~EasyCase(plan) /\ rnd.pc \in {"loop", "emit"}

C7_SeededReplay ==
    plan.kind = "RandomPoints"
    => /\ plan = RandomPoints(call).v.plan
       /\ ~IsNone(plan.random_seed)
            => \A i, j \in 1..Len(runs) : runs[i].err = runs[j].err /\ runs[i].v = runs[j].v
       /\ call = ScenarioRandom
            => \A i \in 1..Len(runs) : runs[i].err = "" /\ Len(runs[i].v) = 5

\* C7 witness: a seeded plan iterated twice on the overlap-avoidance path, three points each
C7_Witness ==
    /\ plan.kind = "RandomPoints" /\ ~IsNone(plan.random_seed) /\ ~EasyCase(plan)
    /\ Len(runs) = 2
    /\ Len(runs[1].v) = 3 /\ Len(runs[2].v) = 3

\* C8: after construction an index start_at lies in 0..num_points-1: an index past
\* the end becomes num_points - 1 and a warning is issued (10 with 5 points becomes
\* 4), an index in range is kept and no warning is issued, a literal is kept.
C8_StartAtClamped ==
    plan.kind = "RandomPoints"
    => LET given == call.start_at
           warned == \E k \in 1..Len(warnings) : warnings[k] = "start_at"
       IN  /\ ~plan.start_at.literal
                => (0 <= plan.start_at.i /\ plan.start_at.i <= plan.num_points - 1)
           /\ (~given.literal /\ given.i > plan.num_points - 1)
                => (plan.start_at = IndexStart(plan.num_points - 1) /\ warned)
           /\ (given.literal \/ given.i <= plan.num_points - 1)
                => (plan.start_at = given /\ ~warned)
           /\ call = ScenarioStartAt => plan.start_at.i = 4

\* C8 witness: start_at=10 with num_points=5, clamped and warned about
C8_Witness ==
    /\ call = ScenarioStartAt
    /\ plan.kind = "RandomPoints"
    /\ plan.start_at.i = 4
    /\ warnings = <<"start_at">>

\* C9 (as stated): in the overlap-avoidance path the candidates drawn in one
\* iteration never number more than 10000.
C9_DrawnAtMostCeiling ==
    Avoiding => rnd.drawn <= MIN_RANDOM_POINTS

\* C9 (amended): a batch is drawn only while fewer than 10000 candidates have been
\* drawn, so the candidates drawn in one iteration number at most
\* 10000 + per_iter - 1, per_iter being the batch size.
C9_DrawnBelowCeilingPlusBatch ==
    Avoiding
    => /\ rnd.drawn = 0 \/ rnd.drawn - rnd.per_iter < MIN_RANDOM_POINTS
       /\ rnd.drawn <= MIN_RANDOM_POINTS + Max(rnd.per_iter - 1, 0)

\* C9 witness: a search that ran out with more than 10000 candidates drawn
C9_Witness ==
    /\ Avoiding /\ rnd.pc = "emit"
    /\ Len(rnd.points) < plan.num_points
    /\ rnd.drawn > MIN_RANDOM_POINTS

\* C11: every grid plan that construction accepts has overlap components that make
\* no step size <= 0: for every positive FOV, dx > 0 and dy > 0, so the row and
\* column counts are computed with a positive divisor and are >= 1.
C11_PositiveStep ==
    (ctorErr = "" /\ plan.kind \in GridKinds)
    => \A w, h \in {U(1), U(2)} :
          LET d    == _step_size(plan, w, h)
              rows == _nrows(plan, d[2])
              cols == _ncolumns(plan, d[1])
          IN  /\ d[1] > 0 /\ d[2] > 0
              /\ rows.err = "" /\ rows.v >= 1
              /\ cols.err = "" /\ cols.v >= 1

\* the names of the positions ps are 0000, 0001, ... in the order of emission
NamedByIndex(ps) == \A k \in 1..Len(ps) : ps[k].name = PositionName(k - 1)

\* C12: for every plan (edge-bounded, rows x columns, width x height,
\* polygon-bounded, random) the name of the k-th position emitted by iteration
\* (k from 0) is k in decimal, zero-padded to 4 digits: consecutive, with no gaps.
C12_NamesAreEmissionIndices ==
    /\ (iterResult.called /\ iterResult.err = "") => NamedByIndex(iterResult.v)
    /\ \A i \in 1..Len(runs) : runs[i].err = "" => NamedByIndex(runs[i].v)

\* the number of shortfall warnings issued so far
Shortfalls == Cardinality({k \in 1..Len(warnings) : warnings[k] = "shortfall"})

\* the completed iterations that ended with fewer than num_points points
ShortRuns == {i \in 1..Len(runs) : runs[i].found < plan.num_points}

C14_LoopTerminates ==
    /\ (rnd.pc = "loop") ~> (rnd.pc = "emit")
    /\ [](plan.kind = "RandomPoints"
            => /\ Len(rnd.points) <= plan.num_points
               /\ \A i \in 1..Len(runs) :
                     /\ runs[i].found <= plan.num_points
                     /\ Len(runs[i].v) <= plan.num_points)

\* C14 witness: a search that ended at the ceiling holding only the literal start_at
C14_Witness ==
    /\ Avoiding /\ rnd.pc = "emit"
    /\ plan.start_at.literal /\ plan.num_points > 1
    /\ Len(rnd.points) = 1
    /\ rnd.tries >= MIN_RANDOM_POINTS

\* the iteration was given both FOV dimensions by its caller
Supplied(r) ==
    /\ r.called
    /\ "fov_width" \in DOMAIN r
    /\ ~IsNone(r.fov_width) /\ ~IsNone(r.fov_height)

\* C15: for an edge-bounded plan whose own FOV is unset, iterating with the FOV
\* given at iteration time, iter_grid_positions(fov_width=w, fov_height=h), emits
\* the same sequence of positions (count, coordinates, row/col) as iterating the
\* otherwise identical plan constructed with fov_width=w and fov_height=h.
C15_SuppliedFovAsConstructed ==
    (/\ plan.kind = "GridFromEdges"
     /\ IsNone(plan.fov_width) /\ IsNone(plan.fov_height)
     /\ Supplied(iterResult))
    => LET built == GridFromEdges([call EXCEPT !.fov_width = iterResult.fov_width,
                                               !.fov_height = iterResult.fov_height])
           other == GridIter(built.v)
       IN  /\ built.err = ""
           /\ iterResult.err = other.err
           /\ iterResult.err = "" => iterResult.v = other.v

====
